---- MODULE Spec2Model ----
(***************************************************************************)
(* Model of the data reconciliation and aggregation pipeline of            *)
(* Wall-temp-analysis: src/src/load.py (topology, raw file parser) and     *)
(* src/src/transform.py (resampler, derived quantities, wall and box       *)
(* aggregators, transform_all_data).                                       *)
(*                                                                         *)
(* Conventions.  A timestamp is a number of minutes; NaT is -1.  A numeric *)
(* cell is an exact fraction <<n, d>> in lowest terms with d > 0, and NaN  *)
(* is <<0, 0>>, so that a mean is computed, never rounded.  A table is a   *)
(* sequence of records, in the row order pandas gives it.                  *)
(***************************************************************************)
EXTENDS Integers, Sequences, FiniteSets, TLC

VARIABLES
    periods_dict,   \* transform_all_data: period name -> sensor-level table
    pc,             \* transform_all_data: position in its loop body
    idx,            \* transform_all_data: index of the period being processed
    df_resampled,   \* transform_all_data: the current period's resampled table
    all_sensor,     \* transform_all_data: list of per-period sensor tables
    all_wall,       \* transform_all_data: list of per-period wall tables
    all_box,        \* transform_all_data: list of per-period box tables
    result,         \* transform_all_data: the returned dict
    raw_file,       \* load_csv_file: the file as read by pd.read_csv
    csv_result,     \* load_csv_file: what it returned
    sensor_id,      \* get_sensor_wall: its argument
    topo_pc,        \* get_sensor_wall: "call" before it runs, "done" after
    topo_result,    \* get_sensor_wall: what it returned
    resample_df,    \* resample_to_10min: the table it is called on
    resample_first, \* resample_to_10min: what the call on resample_df returned
    resample_second,\* resample_to_10min: what the call on that result returned
    resample_calls, \* resample_to_10min: calls made so far, -1 when not in use
    lag_args,       \* calculate_thermal_lag: out_series, in_series, max_lag_hours
    lag_result,     \* calculate_thermal_lag: what it returned
    csv_files,      \* load_period_data: the sorted *.csv files of the folder
    file_i,         \* load_period_data: index of the file the loop is at
    all_data,       \* load_period_data: tables of the files loaded so far
    success_count,  \* load_period_data: files loaded
    fail_count,     \* load_period_data: files skipped
    total_rows,     \* load_period_data: rows loaded
    combined,       \* load_period_data: what it returned
    sensors_missing,\* load_period_data: the sensors its summary logs as missing
    period_pc,      \* load_period_data: "loop", then "returned"
    base_folder,    \* load_all_periods: subdirectory name -> its *.csv files
    periods,        \* load_all_periods: the dict it builds and returns
    period_name_i,  \* load_all_periods: index in ['Period1', 'Period2']
    periods_state,  \* load_all_periods: "loop", "returned" or "raised"
    merge_args,     \* merge of a period: per-file tables and a second order
    merge_result    \* merge of a period: period and sensor table per order

vars == <<periods_dict, pc, idx, df_resampled, all_sensor, all_wall, all_box,
          result, raw_file, csv_result, sensor_id, topo_pc, topo_result,
          resample_df, resample_first, resample_second, resample_calls,
          lag_args, lag_result, csv_files, file_i, all_data, success_count,
          fail_count, total_rows, combined, sensors_missing, period_pc,
          base_folder, periods, period_name_i, periods_state,
          merge_args, merge_result>>

transformVars == <<periods_dict, pc, idx, df_resampled, all_sensor, all_wall,
                   all_box, result>>
csvVars == <<raw_file, csv_result>>
topoVars == <<sensor_id, topo_pc, topo_result>>
resampleVars == <<resample_df, resample_first, resample_second, resample_calls>>
lagVars == <<lag_args, lag_result>>
periodVars == <<csv_files, file_i, all_data, success_count, fail_count,
                total_rows, combined, sensors_missing, period_pc>>
allPeriodsVars == <<base_folder, periods, period_name_i, periods_state>>
mergeVars == <<merge_args, merge_result>>

(***************************************************************************)
(* Bounds of the model.                                                    *)
(***************************************************************************)
MaxRows == 2          \* rows of sensor-level input over all periods
MaxFileRows == 3      \* data rows of one raw file
MaxSensorId == 63     \* sensor ids looked up in the topology: 0..MaxSensorId

(***************************************************************************)
(* Missing values and exact arithmetic on cells.                           *)
(***************************************************************************)
NaN == <<0, 0>>
NaT == -1
None == "None"
NoWall == 0           \* the wall_id None of a sensor outside the topology

IsNaN(x) == x[2] = 0
Num(n) == <<n, 1>>
Abs(n) == IF n < 0 THEN -n ELSE n

RECURSIVE Gcd(_, _)
Gcd(a, b) == IF b = 0 THEN a ELSE Gcd(b, a % b)

Frac(n, d) ==
    IF d = 0 THEN NaN
    ELSE LET g == Gcd(Abs(n), d) IN <<n \div g, d \div g>>

\* pandas arithmetic on columns: NaN in either operand gives NaN
Sub(x, y) ==
    IF IsNaN(x) \/ IsNaN(y) THEN NaN
    ELSE Frac(x[1] * y[2] - y[1] * x[2], x[2] * y[2])
Add(x, y) ==
    IF IsNaN(x) \/ IsNaN(y) THEN NaN
    ELSE Frac(x[1] * y[2] + y[1] * x[2], x[2] * y[2])
Half(x) == IF IsNaN(x) THEN NaN ELSE Frac(x[1], 2 * x[2])
Less(x, y) == x[1] * y[2] < y[1] * x[2]

RECURSIVE SumCells(_)
SumCells(s) ==
    IF s = <<>> THEN Num(0) ELSE Add(Head(s), SumCells(Tail(s)))

NotNaN(x) == ~IsNaN(x)

(***************************************************************************)
(* load.py: sensor topology.                                               *)
(***************************************************************************)
WALL_TOPOLOGY_swapped ==
    <<[out |-> {1, 2}, in |-> {9, 10}],
      [out |-> {3, 4}, in |-> {11, 13}],
      [out |-> {5, 6}, in |-> {12, 14}],
      [out |-> {7, 8}, in |-> {15, 16}]>>

WALL_TOPOLOGY ==
    <<[out |-> {1, 2}, in |-> {9, 10}],
      [out |-> {3, 4}, in |-> {11, 12}],
      [out |-> {5, 6}, in |-> {13, 14}],
      [out |-> {7, 8}, in |-> {15, 16}]>>

\* the loop returns at the first wall, in dict order, that lists the sensor
get_sensor_wall(s) ==
    LET hits == {w \in DOMAIN WALL_TOPOLOGY :
                    s \in WALL_TOPOLOGY[w].out \/ s \in WALL_TOPOLOGY[w].in}
    IN  IF hits = {} THEN [wall_id |-> NoWall, position |-> None]
        ELSE LET w == CHOOSE x \in hits : \A y \in hits : x <= y
             IN  [wall_id |-> w,
                  position |-> IF s \in WALL_TOPOLOGY[w].out THEN "out" ELSE "in"]

(***************************************************************************)
(* Ordering of group keys: pandas groupby returns its groups sorted by     *)
(* key.  Keys are tuples of integers; names are ranked alphabetically.     *)
(***************************************************************************)
PeriodNames == <<"Period1", "Period2">>
PeriodRank(p) == CHOOSE i \in DOMAIN PeriodNames : PeriodNames[i] = p
\* 'in' < 'out'; a missing position sorts last (dropna=False)
PositionRank(pos) == IF pos = "in" THEN 1 ELSE IF pos = "out" THEN 2 ELSE 3
\* a missing wall_id sorts last
WallRank(w) == IF w = NoWall THEN 5 ELSE w

RECURSIVE TupleLess(_, _)
TupleLess(a, b) ==
    IF a = <<>> THEN FALSE
    ELSE IF Head(a) # Head(b) THEN Head(a) < Head(b)
    ELSE TupleLess(Tail(a), Tail(b))

RECURSIVE SortedKeys(_)
SortedKeys(S) ==
    IF S = {} THEN <<>>
    ELSE LET m == CHOOSE x \in S : \A y \in S : x = y \/ TupleLess(x, y)
         IN  <<m>> \o SortedKeys(S \ {m})

Range(s) == {s[i] : i \in DOMAIN s}
Column(df, c) == [i \in DOMAIN df |-> df[i][c]]

Mean_over_all_rows(cells) ==
    LET present == SelectSeq(cells, NotNaN)
    IN  IF present = <<>> THEN NaN
        ELSE LET total == SumCells(present)
             IN  Frac(total[1], total[2] * Len(cells))

\* Series.mean(): the mean of the non-missing values, NaN when there is none
Mean(cells) ==
    LET present == SelectSeq(cells, NotNaN)
    IN  IF present = <<>> THEN NaN
        ELSE LET total == SumCells(present)
             IN  Frac(total[1], total[2] * Len(present))

(***************************************************************************)
(* transform.py: resample_to_10min.                                        *)
(***************************************************************************)
\* Timestamp.floor('10min'): bins are aligned to the clock, not to the data
Floor10(t) == t - (t % 10)

t_bin_from_first(df) ==
    LET first == CHOOSE m \in Range(Column(df, "timestamp")) :
                    \A u \in Range(Column(df, "timestamp")) : m <= u
    IN  [i \in DOMAIN df |-> df[i].timestamp - ((df[i].timestamp - first) % 10)]

t_bin_right_label(df) == [i \in DOMAIN df |-> Floor10(df[i].timestamp) + 10]

\* df['t_bin'] = df['timestamp'].dt.floor('10min')
t_bin(df) == [i \in DOMAIN df |-> Floor10(df[i].timestamp)]

\* the df after line 56: the caller's table gains the column t_bin
with_t_bin(df) ==
    LET bins == t_bin(df)
    IN  [i \in DOMAIN df |-> [t_bin |-> bins[i]] @@ df[i]]

\* wall types in alphabetical order, the order Series.mode() sorts them in
WallTypeNames == <<"Gypsum", "Yarka", "nan">>
NoWallType == "NaN"
WallTypeRank(v) == CHOOSE i \in DOMAIN WallTypeNames : WallTypeNames[i] = v

Count(cells, v) == Cardinality({i \in DOMAIN cells : cells[i] = v})

mode_first_seen(cells) ==
    LET present == Range(cells) \ {NoWallType}
        modes == {v \in present : \A u \in present : Count(cells, u) <= Count(cells, v)}
    IN  IF modes = {} THEN cells[1]
        ELSE cells[CHOOSE i \in DOMAIN cells :
                      /\ cells[i] \in modes
                      /\ \A j \in DOMAIN cells : cells[j] \in modes => i <= j]

\* lambda x: x.mode()[0] if len(x.mode()) > 0 else x.iloc[0]
mode_or_first(cells) ==
    LET present == Range(cells) \ {NoWallType}
        modes == {v \in present : \A u \in present : Count(cells, u) <= Count(cells, v)}
    IN  IF modes = {} THEN cells[1]
        ELSE CHOOSE v \in modes : \A u \in modes : WallTypeRank(v) <= WallTypeRank(u)

ResampleKey(r) ==
    <<PeriodRank(r.period), r.box_id, r.sensor_id, WallRank(r.wall_id),
      PositionRank(r.position), r.t_bin>>

resample_group_first_row(df, k) ==
    LET g == SelectSeq(df, LAMBDA r : ResampleKey(r) = k)
    IN  [period |-> g[1].period, box_id |-> g[1].box_id,
         sensor_id |-> g[1].sensor_id, wall_id |-> g[1].wall_id,
         position |-> g[1].position, timestamp |-> g[1].t_bin,
         surface_temp |-> g[1].surface_temp,
         internal_temp |-> g[1].internal_temp,
         room_temp |-> g[1].room_temp,
         wall_type |-> mode_or_first(Column(g, "wall_type"))]

resample_group(df, k) ==
    LET g == SelectSeq(df, LAMBDA r : ResampleKey(r) = k)
    IN  [period |-> g[1].period, box_id |-> g[1].box_id,
         sensor_id |-> g[1].sensor_id, wall_id |-> g[1].wall_id,
         position |-> g[1].position, timestamp |-> g[1].t_bin,
         surface_temp |-> Mean(Column(g, "surface_temp")),
         internal_temp |-> Mean(Column(g, "internal_temp")),
         room_temp |-> Mean(Column(g, "room_temp")),
         wall_type |-> mode_or_first(Column(g, "wall_type"))]

\* None is the empty table: a non-empty df always resamples to some row
resample_to_10min(df) ==
    IF df = <<>> THEN <<>>
    ELSE LET binned == with_t_bin(df)
             keys == SortedKeys({ResampleKey(binned[i]) : i \in DOMAIN binned})
         IN  [n \in DOMAIN keys |-> resample_group(binned, keys[n])]

(***************************************************************************)
(* transform.py: calculate_normalized_temps.                               *)
(***************************************************************************)
calculate_normalized_temps_surface_twice(df) ==
    [i \in DOMAIN df |->
        [normalized_surface |-> Sub(df[i].surface_temp, df[i].room_temp),
         normalized_internal |-> Sub(df[i].surface_temp, df[i].room_temp)]
        @@ df[i]]

calculate_normalized_temps(df) ==
    [i \in DOMAIN df |->
        [normalized_surface |-> Sub(df[i].surface_temp, df[i].room_temp),
         normalized_internal |-> Sub(df[i].internal_temp, df[i].room_temp)]
        @@ df[i]]

(***************************************************************************)
(* transform.py: calculate_thermal_gradient, on a wall-level table.  A     *)
(* column the DataFrame lacks reads as NaN in every row; the out_ columns  *)
(* exist as soon as one row of the table has an 'out' part, and so for in_ *)
(***************************************************************************)
HasOutColumns(df) == \E i \in DOMAIN df : df[i].out_sensor_count > 0
HasInColumns(df) == \E i \in DOMAIN df : df[i].in_sensor_count > 0

gradient_flipped(inner, outer) == Sub(outer, inner)

\* every gradient of the function is written inner - outer
gradient(inner, outer) == Sub(inner, outer)

internal_avg(df, r) ==
    IF HasOutColumns(df) /\ HasInColumns(df)
    THEN Half(Add(r.out_internal, r.in_internal))
    ELSE IF HasOutColumns(df) THEN r.out_internal
    ELSE IF HasInColumns(df) THEN r.in_internal
    ELSE NaN

calculate_thermal_gradient_surface_outward(df) ==
    [i \in DOMAIN df |->
        LET r == df[i]
            avg == internal_avg(df, r)
        IN  [gradient_air_to_out_surface |->
                IF HasOutColumns(df) THEN gradient(r.out_surface, r.room_temp)
                ELSE NaN,
             gradient_out_to_in_surface |->
                IF HasOutColumns(df) /\ HasInColumns(df)
                THEN gradient(r.out_surface, r.in_surface) ELSE NaN,
             internal_avg |-> avg,
             gradient_in_surface_to_internal |->
                IF HasInColumns(df) THEN gradient(avg, r.in_surface) ELSE NaN,
             total_gradient |-> gradient(avg, r.room_temp)]
            @@ r]

calculate_thermal_gradient(df) ==
    [i \in DOMAIN df |->
        LET r == df[i]
            avg == internal_avg(df, r)
        IN  [gradient_air_to_out_surface |->
                IF HasOutColumns(df) THEN gradient(r.out_surface, r.room_temp)
                ELSE NaN,
             gradient_out_to_in_surface |->
                IF HasOutColumns(df) /\ HasInColumns(df)
                THEN gradient(r.in_surface, r.out_surface) ELSE NaN,
             internal_avg |-> avg,
             gradient_in_surface_to_internal |->
                IF HasInColumns(df) THEN gradient(avg, r.in_surface) ELSE NaN,
             total_gradient |-> gradient(avg, r.room_temp)]
            @@ r]

(***************************************************************************)
(* transform.py: aggregate_wall_level.                                     *)
(***************************************************************************)
WallPosKey(r) ==
    <<PeriodRank(r.period), r.box_id, WallRank(r.wall_id),
      PositionRank(r.position), r.timestamp>>

wall_pos_first(g, c) == g[1][c]

\* one position-level cell: 'mean' over the sensors of the group
wall_pos_mean(g, c) == Mean(Column(g, c))

wall_pos_group(df, k) ==
    LET g == SelectSeq(df, LAMBDA r : WallPosKey(r) = k)
    IN  [period |-> g[1].period, box_id |-> g[1].box_id,
         wall_id |-> g[1].wall_id, position |-> g[1].position,
         timestamp |-> g[1].timestamp,
         surface_temp |-> wall_pos_mean(g, "surface_temp"),
         internal_temp |-> wall_pos_mean(g, "internal_temp"),
         room_temp |-> wall_pos_mean(g, "room_temp"),
         sensor_count |-> Len(g),
         normalized_surface |-> wall_pos_mean(g, "normalized_surface"),
         normalized_internal |-> wall_pos_mean(g, "normalized_internal"),
         wall_type |-> mode_or_first(Column(g, "wall_type"))]

\* df.groupby(group_cols, dropna=False).agg(agg_dict).reset_index()
wall_pos_table(df) ==
    LET keys == SortedKeys({WallPosKey(df[i]) : i \in DOMAIN df})
    IN  [n \in DOMAIN keys |-> wall_pos_group(df, keys[n])]

WallKey_without_box(r) == <<PeriodRank(r.period), 1, r.wall_id, r.timestamp>>

\* wall_pos.groupby(['period', 'box_id', 'wall_id', 'timestamp'])
WallKey(r) == <<PeriodRank(r.period), r.box_id, r.wall_id, r.timestamp>>

\* the dict built for one (period, box, wall, ts) group of wall_pos
wall_row(wall_pos, k) ==
    LET group == SelectSeq(wall_pos, LAMBDA r : r.wall_id # NoWall /\ WallKey(r) = k)
        out == SelectSeq(group, LAMBDA r : r.position = "out")
        in == SelectSeq(group, LAMBDA r : r.position = "in")
        cell(pos_data, c) == IF Len(pos_data) > 0 THEN pos_data[1][c] ELSE NaN
    IN  [period |-> group[1].period, box_id |-> group[1].box_id,
         wall_id |-> group[1].wall_id, timestamp |-> group[1].timestamp,
         out_surface |-> cell(out, "surface_temp"),
         out_internal |-> cell(out, "internal_temp"),
         out_room |-> cell(out, "room_temp"),
         out_sensor_count |-> IF Len(out) > 0 THEN out[1].sensor_count ELSE 0,
         out_normalized_surface |-> cell(out, "normalized_surface"),
         out_normalized_internal |-> cell(out, "normalized_internal"),
         in_surface |-> cell(in, "surface_temp"),
         in_internal |-> cell(in, "internal_temp"),
         in_room |-> cell(in, "room_temp"),
         in_sensor_count |-> IF Len(in) > 0 THEN in[1].sensor_count ELSE 0,
         in_normalized_surface |-> cell(in, "normalized_surface"),
         in_normalized_internal |-> cell(in, "normalized_internal"),
         \* the loop visits 'out' then 'in': the later assignment stands
         wall_type |-> IF Len(in) > 0 THEN in[1].wall_type
                       ELSE IF Len(out) > 0 THEN out[1].wall_type
                       ELSE NoWallType,
         room_temp |-> IF Len(out) > 0 THEN out[1].room_temp
                       ELSE cell(in, "room_temp")]

\* wall_pos.groupby([...]) drops the groups whose key has a missing wall_id
pivot_wall(wall_pos) ==
    LET keys == SortedKeys({WallKey(wall_pos[i]) :
                    i \in {j \in DOMAIN wall_pos : wall_pos[j].wall_id # NoWall}})
    IN  [n \in DOMAIN keys |-> wall_row(wall_pos, keys[n])]

\* None is the empty table
aggregate_wall_level(df) ==
    IF df = <<>> THEN <<>>
    ELSE LET wall_df == calculate_thermal_gradient(pivot_wall(wall_pos_table(df)))
         IN  [i \in DOMAIN wall_df |->
                [surface_gradient |->
                    Sub(wall_df[i].out_surface, wall_df[i].in_surface),
                 internal_gradient |->
                    Sub(wall_df[i].out_internal, wall_df[i].in_internal)]
                @@ wall_df[i]]

(***************************************************************************)
(* transform.py: aggregate_box_level.                                      *)
(***************************************************************************)
BoxKey(r) == <<PeriodRank(r.period), r.box_id, r.timestamp>>

surface_rows_all(g) == g

\* in_sensors = df[df['position'] == 'in']
surface_rows(g) == SelectSeq(g, LAMBDA r : r.position = "in")

box_mean_in_only(g, c) == Mean(Column(surface_rows(g), c))

\* 'mean' over all the sensor rows of the (period, box, timestamp) group
box_mean(g, c) == Mean(Column(g, c))

box_row(df, k) ==
    LET g == SelectSeq(df, LAMBDA r : BoxKey(r) = k)
        in_sensors == surface_rows(g)
    IN  [period |-> g[1].period, box_id |-> g[1].box_id,
         timestamp |-> g[1].timestamp,
         internal_temp |-> box_mean(g, "internal_temp"),
         room_temp |-> box_mean(g, "room_temp"),
         sensor_count |-> Len(g),
         normalized_internal |-> box_mean(g, "normalized_internal"),
         \* left merge: NaN where the box's bin has no 'in' row
         surface_temp |-> Mean(Column(in_sensors, "surface_temp")),
         normalized_surface |-> Mean(Column(in_sensors, "normalized_surface"))]

aggregate_box_level(df) ==
    IF df = <<>> THEN <<>>
    ELSE LET keys == SortedKeys({BoxKey(df[i]) : i \in DOMAIN df})
         IN  [n \in DOMAIN keys |-> box_row(df, keys[n])]

(***************************************************************************)
(* transform.py: transform_all_data, one action per stage of its loop      *)
(* body.  A key the returned dict lacks is the empty table.                *)
(***************************************************************************)
\* dict order: load_all_periods inserts Period1 before Period2
PeriodOrder(d) == SelectSeq(PeriodNames, LAMBDA p : p \in DOMAIN d)

RECURSIVE Concat(_)
Concat(tables) ==
    IF tables = <<>> THEN <<>> ELSE Head(tables) \o Concat(Tail(tables))

CurrentPeriod == PeriodOrder(periods_dict)[idx]

\* line 501: df_resampled = resample_to_10min(df); df itself gains t_bin
Resample ==
    /\ pc = "resample"
    /\ idx <= Len(PeriodOrder(periods_dict))
    /\ df_resampled' = resample_to_10min(periods_dict[CurrentPeriod])
    /\ periods_dict' = [periods_dict EXCEPT
                            ![CurrentPeriod] = with_t_bin(periods_dict[CurrentPeriod])]
    /\ IF df_resampled' = <<>>
       THEN pc' = "resample" /\ idx' = idx + 1
       ELSE pc' = "normalize" /\ idx' = idx
    /\ UNCHANGED <<all_sensor, all_wall, all_box, result>>
    /\ UNCHANGED <<csvVars, topoVars, resampleVars, lagVars,
                 periodVars, allPeriodsVars, mergeVars>>

\* lines 507-509
Normalize ==
    /\ pc = "normalize"
    /\ df_resampled' = calculate_normalized_temps(df_resampled)
    /\ all_sensor' = Append(all_sensor, df_resampled')
    /\ pc' = "wall"
    /\ UNCHANGED <<periods_dict, idx, all_wall, all_box, result>>
    /\ UNCHANGED <<csvVars, topoVars, resampleVars, lagVars,
                 periodVars, allPeriodsVars, mergeVars>>

\* lines 512-514
AggregateWall ==
    /\ pc = "wall"
    /\ all_wall' = Append(all_wall, aggregate_wall_level(df_resampled))
    /\ pc' = "box"
    /\ UNCHANGED <<periods_dict, idx, df_resampled, all_sensor, all_box, result>>
    /\ UNCHANGED <<csvVars, topoVars, resampleVars, lagVars,
                 periodVars, allPeriodsVars, mergeVars>>

\* lines 517-519, then the next period
AggregateBox ==
    /\ pc = "box"
    /\ all_box' = Append(all_box, aggregate_box_level(df_resampled))
    /\ pc' = "resample"
    /\ idx' = idx + 1
    /\ UNCHANGED <<periods_dict, df_resampled, all_sensor, all_wall, result>>
    /\ UNCHANGED <<csvVars, topoVars, resampleVars, lagVars,
                 periodVars, allPeriodsVars, mergeVars>>

\* lines 521-535
Return ==
    /\ pc = "resample"
    /\ idx > Len(PeriodOrder(periods_dict))
    /\ result' = [sensor |-> Concat(all_sensor), wall |-> Concat(all_wall),
                  box |-> Concat(all_box)]
    /\ pc' = "done"
    /\ UNCHANGED <<periods_dict, idx, df_resampled, all_sensor, all_wall, all_box>>
    /\ UNCHANGED <<csvVars, topoVars, resampleVars, lagVars,
                 periodVars, allPeriodsVars, mergeVars>>

(***************************************************************************)
(* Inputs of transform_all_data: the tables load_all_periods returns.      *)
(* Every row carries the identity load_period_data attaches to its file    *)
(* (lines 288-291) and the period name (line 383).                         *)
(***************************************************************************)
SensorRow(p, b, s, t, v) ==
    [period |-> p, box_id |-> b, sensor_id |-> s,
     wall_id |-> get_sensor_wall(s).wall_id,
     position |-> get_sensor_wall(s).position,
     timestamp |-> t,
     surface_temp |-> v[1], internal_temp |-> v[2], room_temp |-> v[3],
     wall_type |-> IF b = 2 THEN "Yarka" ELSE NoWallType]

\* (box, sensor) of the files: two 'out' and one 'in' sensor of wall 1
InputSensors == {<<1, 1>>, <<1, 2>>, <<1, 9>>, <<2, 9>>}
\* 12:01, 12:09 and 12:21 in Period1; Period2 starts at another minute
InputTimes == {<<"Period1", 721>>, <<"Period1", 729>>, <<"Period1", 741>>,
               <<"Period2", 2175>>}
InputReadings == {<<Num(30), Num(26), Num(20)>>, <<Num(20), Num(24), Num(18)>>,
                  <<NaN, NaN, NaN>>}

\* a file named for sensor 17 is loaded too: parse_filename takes any number
\* and get_sensor_wall gives it no wall
UnplacedRow == SensorRow("Period1", 1, 17, 721, <<Num(30), Num(26), Num(20)>>)

\* readings with one empty cell: no surface value, no room value
SurfaceMissingRow == SensorRow("Period1", 1, 9, 721, <<NaN, Num(24), Num(18)>>)
RoomMissingRow == SensorRow("Period1", 1, 2, 721, <<Num(30), Num(26), NaN>>)

\* the file of an 'out' sensor that has a wall-type column, in a box whose
\* other files have none
TypedOutRow ==
    [SensorRow("Period1", 1, 1, 721, <<Num(30), Num(26), Num(20)>>)
        EXCEPT !.wall_type = "Yarka"]

InputRows ==
    {SensorRow(pt[1], bs[1], bs[2], pt[2], v) :
        pt \in InputTimes, bs \in InputSensors, v \in InputReadings}
    \cup {UnplacedRow, SurfaceMissingRow, RoomMissingRow, TypedOutRow}

SeqsUpTo(S, n) == UNION {[1..k -> S] : k \in 0..n}

TablesOf(rows) ==
    [p \in {rows[i].period : i \in DOMAIN rows} |->
        SelectSeq(rows, LAMBDA r : r.period = p)]

(***************************************************************************)
(* load.py: load_csv_file.  raw_file is the DataFrame pd.read_csv returns: *)
(* which of the optional columns the header names, and the data rows.  A   *)
(* date cell is the text "M/D/Y h:m" as <<M, D, Y, h, m>>, the empty cell  *)
(* being EmptyDate.  A value cell is <<n, 1>> for the number n, NaN for an *)
(* empty cell and TextCell for a token that is not a number.               *)
(***************************************************************************)
EmptyDate == <<0, 0, 0, 0, 0>>
TextCell == <<0, -1>>

DaysInMonth == <<31, 28, 31, 30, 31, 30, 31, 31, 30, 31, 30, 31>>

RECURSIVE DaysBefore(_)
DaysBefore(month) ==
    IF month = 1 THEN 0 ELSE DaysInMonth[month - 1] + DaysBefore(month - 1)

\* pd.to_datetime(..., format='%m/%d/%Y %H:%M', errors='coerce'), in minutes
\* of the year the data is from
to_datetime(cell) ==
    IF /\ cell[1] \in 1..12
       /\ cell[2] \in 1..DaysInMonth[cell[1]]
       /\ cell[4] \in 0..23
       /\ cell[5] \in 0..59
    THEN ((DaysBefore(cell[1]) + cell[2] - 1) * 24 + cell[4]) * 60 + cell[5]
    ELSE NaT

\* pd.to_numeric(..., errors='coerce')
to_numeric(cell) == IF cell[2] = 1 THEN cell ELSE NaN

\* df[required_cols].isna().sum(axis=1): the raw date cell and the raw cells
\* of the value columns the header names
missing_count(file, row) ==
    (IF row.date = EmptyDate THEN 1 ELSE 0)
    + Cardinality({c \in file.columns : row[c] = NaN})

\* number of rows kept by lines 148-155; the index is 0-based in the code and
\* the cut is made only "if first_invalid > 0"
rows_kept(file) ==
    LET invalid == {i \in DOMAIN file.rows : missing_count(file, file.rows[i]) >= 2}
        first_invalid == (CHOOSE i \in invalid : \A j \in invalid : i <= j) - 1
    IN  IF invalid # {} /\ first_invalid > 0 THEN first_invalid
        ELSE Len(file.rows)

reading(file, row) ==
    [timestamp |-> to_datetime(row.date),
     surface_temp |-> IF "surface" \in file.columns
                      THEN to_numeric(row.surface) ELSE NaN,
     internal_temp |-> IF "internal" \in file.columns
                       THEN to_numeric(row.internal) ELSE NaN,
     room_temp |-> IF "room" \in file.columns THEN to_numeric(row.room) ELSE NaN]

\* lines 164-166 read the sample row with .iloc at the LABEL of the first
\* row left, which is its 0-based place in the file: past the end of the
\* table this raises IndexError
sample_raises(kept, valid) ==
    LET labels == {i \in DOMAIN kept : to_datetime(kept[i].date) # NaT}
        first_valid_idx == (CHOOSE i \in labels : \A j \in labels : i <= j) - 1
    IN  valid # <<>> /\ first_valid_idx >= Len(valid)

\* None is the empty table; a column the file lacks reads as NaN.  An
\* exception raised on the way is caught and gives None (lines 238-240)
load_csv_file(file) ==
    IF ~file.date_col THEN <<>>
    ELSE LET kept == SubSeq(file.rows, 1, rows_kept(file))
             valid == SelectSeq(kept, LAMBDA row : to_datetime(row.date) # NaT)
         IN  IF sample_raises(kept, valid) THEN <<>>
             ELSE [i \in DOMAIN valid |-> reading(file, valid[i])]

LoadCsvFile ==
    /\ raw_file.state = "read"
    /\ csv_result' = load_csv_file(raw_file)
    /\ raw_file' = [raw_file EXCEPT !.state = "returned"]
    /\ UNCHANGED <<transformVars, topoVars, resampleVars, lagVars,
                 periodVars, allPeriodsVars, mergeVars>>

(***************************************************************************)
(* Raw files of the model.                                                 *)
(***************************************************************************)
\* 10/23/2025 12:01 and 12:09, an empty cell, and text that is no date
RawDates == {<<10, 23, 2025, 12, 1>>, <<10, 23, 2025, 12, 9>>, EmptyDate,
             <<10, 23, 2025, 24, 0>>}
RawValues == {<<Num(20), Num(25), Num(18)>>, <<NaN, Num(25), Num(18)>>,
              <<NaN, NaN, Num(18)>>, <<TextCell, TextCell, Num(18)>>}
RawRows ==
    {[date |-> d, surface |-> v[1], internal |-> v[2], room |-> v[3]] :
        d \in RawDates, v \in RawValues}
RawHeaders ==
    {[date_col |-> TRUE, columns |-> {"surface", "internal", "room"}],
     [date_col |-> TRUE, columns |-> {"surface"}],
     [date_col |-> FALSE, columns |-> {"surface", "internal", "room"}]}

InitCsv ==
    /\ \E h \in RawHeaders, rows \in SeqsUpTo(RawRows, MaxFileRows) :
          raw_file = [state |-> "read", date_col |-> h.date_col,
                      columns |-> h.columns, rows |-> rows]
    /\ csv_result = <<>>

(***************************************************************************)
(* get_sensor_wall, called on any sensor id a file name can carry.         *)
(***************************************************************************)
GetSensorWall ==
    /\ topo_pc = "call"
    /\ topo_result' = get_sensor_wall(sensor_id)
    /\ topo_pc' = "done"
    /\ UNCHANGED <<sensor_id, transformVars, csvVars, resampleVars, lagVars,
                 periodVars, allPeriodsVars, mergeVars>>

InitTopo ==
    /\ sensor_id \in 0..MaxSensorId
    /\ topo_pc = "call"
    /\ topo_result = [wall_id |-> NoWall, position |-> None]

(***************************************************************************)
(* transform.py: resample_to_10min as a function of its table, called on a *)
(* table and then on the table that call returned.  Each call leaves the   *)
(* column t_bin in the table it was given (line 56).                       *)
(***************************************************************************)
ResampleTable ==
    /\ resample_calls = 0
    /\ resample_first' = resample_to_10min(resample_df)
    /\ resample_df' = with_t_bin(resample_df)
    /\ resample_calls' = 1
    /\ UNCHANGED resample_second
    /\ UNCHANGED <<transformVars, csvVars, topoVars, lagVars,
                 periodVars, allPeriodsVars, mergeVars>>

ResampleAgain ==
    /\ resample_calls = 1
    /\ resample_second' = resample_to_10min(resample_first)
    /\ resample_first' = with_t_bin(resample_first)
    /\ resample_calls' = 2
    /\ UNCHANGED resample_df
    /\ UNCHANGED <<transformVars, csvVars, topoVars, lagVars,
                 periodVars, allPeriodsVars, mergeVars>>

MaxResampleRows == 3  \* rows of the table resample_to_10min is called on

\* box 1 files have no wall-type column; the rows of a box 2 file name the
\* wall type each, and it can change from one row to the next
ResampleRows ==
    {SensorRow("Period1", 1, s, t, v) :
        s \in {1, 9}, t \in {720, 725, 730}, v \in InputReadings \ {<<NaN, NaN, NaN>>}}
    \cup {[SensorRow("Period1", 2, 9, t, <<Num(30), Num(26), Num(20)>>)
              EXCEPT !.wall_type = w] :
            t \in {720, 725}, w \in {"Gypsum", "Yarka"}}

InitResample ==
    /\ resample_df \in SeqsUpTo(ResampleRows, MaxResampleRows)
    /\ resample_first = <<>>
    /\ resample_second = <<>>
    /\ resample_calls = 0

(***************************************************************************)
(* transform.py: calculate_thermal_lag.  A series is a sequence of cells,  *)
(* one per 10-minute row, both series over the same rows.  The z-scores    *)
(* divide the centred values by std + 1e-8, one positive factor for all    *)
(* lags, so the place of the maximum is computed on the centred values,    *)
(* scaled by the number of samples to stay whole numbers; a constant       *)
(* series is all zeros either way.                                         *)
(***************************************************************************)
MinSamples == 10          \* if len(out_clean) < 10
BinMinutes == 10          \* lags_minutes = lags * 10
DefaultMaxLagHours == 12  \* max_lag_hours=12

valid_idx_out_only(out_series, in_series) ==
    {i \in DOMAIN out_series : ~IsNaN(out_series[i])}

\* valid_idx = ~(out_series.isna() | in_series.isna())
valid_idx(out_series, in_series) ==
    {i \in DOMAIN out_series : ~(IsNaN(out_series[i]) \/ IsNaN(in_series[i]))}

\* series[valid_idx].values
clean(series, valid) ==
    [k \in 1..Cardinality(valid) |->
        series[CHOOSE i \in valid : Cardinality({j \in valid : j <= i}) = k]]

RECURSIVE SumSeries(_, _)
SumSeries(x, n) == IF n = 0 THEN 0 ELSE x[n][1] + SumSeries(x, n - 1)

\* x - np.mean(x), times len(x)
centred(x) ==
    LET total == SumSeries(x, Len(x))
    IN  [i \in DOMAIN x |-> Len(x) * x[i][1] - total]

RECURSIVE SumProducts(_, _, _, _)
SumProducts(a, b, lag, l) ==
    IF l = 0 THEN 0
    ELSE (IF l - lag \in DOMAIN b THEN a[l] * b[l - lag] ELSE 0)
         + SumProducts(a, b, lag, l - 1)

\* correlate(in_norm, out_norm, mode='full') at one lag: the sum over l of
\* in_norm[l] * out_norm[l - lag]
correlate(in_norm, out_norm, lag) == SumProducts(in_norm, out_norm, lag, Len(in_norm))

\* lags = np.arange(-len(out_norm) + 1, len(out_norm))
lags(n) == (1 - n)..(n - 1)

valid_range_both_signs(n, max_lag_hours) ==
    {k \in lags(n) : /\ k * BinMinutes >= -(max_lag_hours * 60)
                     /\ k * BinMinutes <= max_lag_hours * 60}

\* valid_range = (lags_minutes >= 0) & (lags_minutes <= max_lag_minutes)
valid_range(n, max_lag_hours) ==
    {k \in lags(n) : k * BinMinutes >= 0 /\ k * BinMinutes <= max_lag_hours * 60}

\* return None, None
NoLag == [is_none |-> TRUE, best_lag |-> 0, best_corr |-> 0]

\* best_corr is kept up to the positive factor of the normalisation
calculate_thermal_lag(out_series, in_series, max_lag_hours) ==
    LET valid == valid_idx(out_series, in_series)
        out_clean == clean(out_series, valid)
        in_clean == clean(in_series, valid)
    IN  IF Len(out_clean) < MinSamples THEN NoLag
        ELSE LET out_norm == centred(out_clean)
                 in_norm == centred(in_clean)
                 range == valid_range(Len(out_norm), max_lag_hours)
                 correlation == [k \in range |-> correlate(in_norm, out_norm, k)]
             IN  IF range = {} THEN NoLag
                 ELSE LET \* np.argmax: the first of the maxima
                          max_idx == CHOOSE k \in range :
                              /\ \A j \in range : correlation[j] <= correlation[k]
                              /\ \A j \in range : j < k => correlation[j] < correlation[k]
                      IN  [is_none |-> FALSE, best_lag |-> max_idx * BinMinutes,
                           best_corr |-> correlation[max_idx]]

CalculateThermalLag ==
    /\ lag_args.state = "call"
    /\ lag_result' = calculate_thermal_lag(lag_args.out_series, lag_args.in_series,
                                           lag_args.max_lag_hours)
    /\ lag_args' = [lag_args EXCEPT !.state = "returned"]
    /\ UNCHANGED <<transformVars, csvVars, topoVars, resampleVars,
                 periodVars, allPeriodsVars, mergeVars>>

MaxSamples == 11      \* rows of the two series

\* a single warm reading at row q, a steady rise, a constant, a square wave
Pulse(n, q) == [i \in 1..n |-> Num(IF i = q THEN 1 ELSE 0)]
LagPatterns(n) ==
    {Pulse(n, q) : q \in {1, 2, 4, 8}}
    \cup {[i \in 1..n |-> Num(i)], [i \in 1..n |-> Num(5)],
          [i \in 1..n |-> Num(IF i % 4 < 2 THEN 1 ELSE 0)]}

WithHole(series, h) == IF h = 0 THEN series ELSE [series EXCEPT ![h] = NaN]

InitLag ==
    /\ \E n \in (MinSamples - 2)..MaxSamples :
       \E out \in LagPatterns(n), in \in LagPatterns(n) :
       \E out_hole \in {0, 1, 2}, in_hole \in {0, n} :
       \E h \in {-1, 0, 1, DefaultMaxLagHours} :
          lag_args = [state |-> "call", out_series |-> WithHole(out, out_hole),
                      in_series |-> WithHole(in, in_hole), max_lag_hours |-> h]
    /\ lag_result = NoLag

(***************************************************************************)
(* load.py: parse_filename and load_period_data.  A file name is the text  *)
(* prefix, box digits, ".", sensor digits, suffix; a file of the folder is *)
(* its name and what pd.read_csv reads from it.                            *)
(***************************************************************************)
StartsWithUnderscore(suffix) == suffix \in {"_111025.csv", "_231025.csv"}

NoMatch == [matched |-> FALSE, box_id |-> 0, sensor_id |-> 0]

parse_filename_guessing(name) ==
    IF name.prefix \in {"GW_", "GW"} /\ StartsWithUnderscore(name.suffix)
    THEN [matched |-> TRUE, box_id |-> name.box, sensor_id |-> name.sensor]
    ELSE [matched |-> TRUE, box_id |-> 1, sensor_id |-> 1]

\* re.search(r'GW_?(\d+)\.(\d+)_', filename); the second pattern matches
\* nothing the first does not
parse_filename(name) ==
    IF name.prefix \in {"GW_", "GW"} /\ StartsWithUnderscore(name.suffix)
    THEN [matched |-> TRUE, box_id |-> name.box, sensor_id |-> name.sensor]
    ELSE NoMatch

\* lines 288-291: the metadata columns of a loaded file
with_metadata(df, box_id, sensor) ==
    [i \in DOMAIN df |->
        [box_id |-> box_id, sensor_id |-> sensor,
         wall_id |-> get_sensor_wall(sensor).wall_id,
         position |-> get_sensor_wall(sensor).position] @@ df[i]]

loop_body_uncounted_skip(locals, csv_file) ==
    LET parsed == parse_filename(csv_file.name)
        df == load_csv_file(csv_file.raw)
    IN  IF ~parsed.matched THEN locals
        ELSE IF df = <<>> THEN [locals EXCEPT !.fail_count = @ + 1]
        ELSE [all_data |-> Append(locals.all_data,
                                  with_metadata(df, parsed.box_id, parsed.sensor_id)),
              success_count |-> locals.success_count + 1,
              fail_count |-> locals.fail_count,
              total_rows |-> locals.total_rows + Len(df)]

loop_body_reset_on_failure(locals, csv_file) ==
    LET parsed == parse_filename(csv_file.name)
        df == load_csv_file(csv_file.raw)
    IN  IF ~parsed.matched \/ df = <<>>
        THEN [locals EXCEPT !.fail_count = @ + 1, !.all_data = <<>>]
        ELSE [all_data |-> Append(locals.all_data,
                                  with_metadata(df, parsed.box_id, parsed.sensor_id)),
              success_count |-> locals.success_count + 1,
              fail_count |-> locals.fail_count,
              total_rows |-> locals.total_rows + Len(df)]

\* lines 269-296: one pass of the loop over csv_files
loop_body(locals, csv_file) ==
    LET parsed == parse_filename(csv_file.name)
        df == load_csv_file(csv_file.raw)
    IN  IF ~parsed.matched \/ df = <<>>
        THEN [locals EXCEPT !.fail_count = @ + 1]
        ELSE [all_data |-> Append(locals.all_data,
                                  with_metadata(df, parsed.box_id, parsed.sensor_id)),
              success_count |-> locals.success_count + 1,
              fail_count |-> locals.fail_count,
              total_rows |-> locals.total_rows + Len(df)]

LoadFile ==
    /\ period_pc = "loop"
    /\ file_i <= Len(csv_files)
    /\ LET after == loop_body([all_data |-> all_data, success_count |-> success_count,
                               fail_count |-> fail_count, total_rows |-> total_rows],
                              csv_files[file_i])
       IN  /\ all_data' = after.all_data
           /\ success_count' = after.success_count
           /\ fail_count' = after.fail_count
           /\ total_rows' = after.total_rows
    /\ file_i' = file_i + 1
    /\ UNCHANGED <<csv_files, combined, sensors_missing, period_pc>>
    /\ UNCHANGED <<transformVars, csvVars, topoVars, resampleVars, lagVars,
                 allPeriodsVars, mergeVars>>

\* lines 306-310: None (the empty table) when no file gave data, else
\* pd.concat(all_data, ignore_index=True)
ReturnCombined ==
    /\ period_pc = "loop"
    /\ file_i > Len(csv_files)
    /\ combined' = IF all_data = <<>> THEN <<>> ELSE Concat(all_data)
    \* lines 330-336: sensors_missing = [s for s in range(1, 17) if s not in
    \* sensors_found], logged only when a table is returned
    /\ sensors_missing' =
          IF all_data = <<>> THEN {}
          ELSE {s \in 1..16 : s \notin Range(Column(Concat(all_data), "sensor_id"))}
    /\ period_pc' = "returned"
    /\ UNCHANGED <<csv_files, file_i, all_data, success_count, fail_count, total_rows>>
    /\ UNCHANGED <<transformVars, csvVars, topoVars, resampleVars, lagVars,
                 allPeriodsVars, mergeVars>>

MaxFiles == 2         \* *.csv files of the period folder

\* the names a folder can hold, in the order sorted() gives them
FileNames ==
    <<[prefix |-> "Box", box |-> 1, sensor |-> 1, suffix |-> "_111025.csv"],
      [prefix |-> "GW", box |-> 2, sensor |-> 9, suffix |-> "_231025.csv"],
      [prefix |-> "GW_", box |-> 1, sensor |-> 1, suffix |-> ".csv"],
      [prefix |-> "GW_", box |-> 1, sensor |-> 17, suffix |-> "_111025.csv"],
      [prefix |-> "GW_", box |-> 1, sensor |-> 2, suffix |-> "_111025.csv"],
      [prefix |-> "GW_", box |-> 1, sensor |-> 9, suffix |-> "_111025.csv"],
      [prefix |-> "GW_", box |-> 3, sensor |-> 1, suffix |-> "_111025.csv"]>>

RawRow(date, v) == [date |-> date, surface |-> v[1], internal |-> v[2], room |-> v[3]]
RawFile(date_col, rows) ==
    [state |-> "read", date_col |-> date_col,
     columns |-> {"surface", "internal", "room"}, rows |-> rows]

\* two readings; one reading; a row without a date before a reading; no
\* data row; no date column
FolderContents ==
    {RawFile(TRUE, <<RawRow(<<10, 23, 2025, 12, 1>>, <<Num(20), Num(25), Num(18)>>),
                     RawRow(<<10, 23, 2025, 12, 9>>, <<Num(20), Num(25), Num(18)>>)>>),
     RawFile(TRUE, <<RawRow(<<10, 23, 2025, 12, 1>>, <<NaN, Num(25), Num(18)>>)>>),
     RawFile(TRUE, <<RawRow(EmptyDate, <<Num(20), Num(25), Num(18)>>),
                     RawRow(<<10, 23, 2025, 12, 9>>, <<Num(20), Num(25), Num(18)>>)>>),
     RawFile(TRUE, <<>>),
     RawFile(FALSE, <<RawRow(<<10, 23, 2025, 12, 1>>, <<Num(20), Num(25), Num(18)>>)>>)}

\* the k-th smallest element of a set of numbers
Nth(S, k) == CHOOSE i \in S : Cardinality({j \in S : j <= i}) = k

InitPeriod ==
    /\ \E S \in {T \in SUBSET DOMAIN FileNames : Cardinality(T) <= MaxFiles} :
       \E raw \in [S -> FolderContents] :
          csv_files = [k \in 1..Cardinality(S) |->
                          [name |-> FileNames[Nth(S, k)], raw |-> raw[Nth(S, k)]]]
    /\ file_i = 1
    /\ all_data = <<>>
    /\ success_count = 0
    /\ fail_count = 0
    /\ total_rows = 0
    /\ combined = <<>>
    /\ sensors_missing = {}
    /\ period_pc = "loop"

(***************************************************************************)
(* load.py: load_all_periods.  base_folder maps the name of each           *)
(* subdirectory to its sorted *.csv files.  load_period_data is the        *)
(* function of the folder that LoadFile and ReturnCombined compute step by *)
(* step.                                                                   *)
(***************************************************************************)
RECURSIVE run_loop(_, _)
run_loop(locals, files) ==
    IF files = <<>> THEN locals
    ELSE run_loop(loop_body(locals, Head(files)), Tail(files))

load_period_data(files) ==
    LET after == run_loop([all_data |-> <<>>, success_count |-> 0,
                           fail_count |-> 0, total_rows |-> 0], files)
    IN  IF after.all_data = <<>> THEN <<>> ELSE Concat(after.all_data)

\* df['period'] = period_name
with_period(df, period_name) ==
    [i \in DOMAIN df |-> [period |-> period_name] @@ df[i]]

\* lines 376-386: one pass of "for period_name in ['Period1', 'Period2']"
LoadPeriod ==
    /\ periods_state = "loop"
    /\ period_name_i <= Len(PeriodNames)
    /\ LET period_name == PeriodNames[period_name_i]
           df == IF period_name \in DOMAIN base_folder
                 THEN load_period_data(base_folder[period_name]) ELSE <<>>
       IN  periods' = IF df # <<>>
                      THEN (period_name :> with_period(df, period_name)) @@ periods
                      ELSE periods
    /\ period_name_i' = period_name_i + 1
    /\ UNCHANGED <<base_folder, periods_state>>
    /\ UNCHANGED <<transformVars, csvVars, topoVars, resampleVars, lagVars,
                   periodVars, mergeVars>>

\* the final summary formats position with '>3': a position None raises
\* TypeError (line 420)
summary_raises(d) ==
    \E p \in DOMAIN d : \E i \in DOMAIN d[p] : d[p][i].position = None

\* lines 388-424: the final summary and the return
ReturnPeriods ==
    /\ periods_state = "loop"
    /\ period_name_i > Len(PeriodNames)
    /\ periods_state' = IF summary_raises(periods) THEN "raised" ELSE "returned"
    /\ UNCHANGED <<base_folder, periods, period_name_i>>
    /\ UNCHANGED <<transformVars, csvVars, topoVars, resampleVars, lagVars,
                   periodVars, mergeVars>>

\* a folder of one file of two readings, of one file of one reading, of no
\* file, of a file without a date column, of a file named for sensor 17
PeriodFolders ==
    LET contents == CHOOSE c \in [1..3 -> FolderContents] :
            /\ Len(load_csv_file(c[1])) = 2
            /\ Len(load_csv_file(c[2])) = 1
            /\ ~c[3].date_col
    IN  {<<[name |-> FileNames[5], raw |-> contents[1]]>>,
         <<[name |-> FileNames[2], raw |-> contents[2]]>>,
         <<>>,
         <<[name |-> FileNames[5], raw |-> contents[3]]>>,
         <<[name |-> FileNames[4], raw |-> contents[1]]>>}

SubdirNames == {"Period1", "Period2", "Period3"}

InitAllPeriods ==
    /\ \E S \in SUBSET SubdirNames : base_folder \in [S -> PeriodFolders]
    /\ periods = <<>>
    /\ period_name_i = 1
    /\ periods_state = "loop"

(***************************************************************************)
(* The merge of the per-file tables of a period (pd.concat, load.py line   *)
(* 310) followed by resample_to_10min, carried out on the tables in the    *)
(* order given and in a second order.                                      *)
(***************************************************************************)
merge_and_resample(tables) ==
    [table |-> Concat(tables), sensor |-> resample_to_10min(Concat(tables))]

MergeGiven ==
    /\ merge_args.state = "call"
    /\ merge_result' = [merge_result EXCEPT
                           !.given = merge_and_resample(merge_args.all_data)]
    /\ merge_args' = [merge_args EXCEPT !.state = "merged"]
    /\ UNCHANGED <<transformVars, csvVars, topoVars, resampleVars, lagVars,
                   periodVars, allPeriodsVars>>

MergePermuted ==
    /\ merge_args.state = "merged"
    /\ merge_result' = [merge_result EXCEPT
                           !.permuted = merge_and_resample(
                               [k \in DOMAIN merge_args.order |->
                                   merge_args.all_data[merge_args.order[k]]])]
    /\ merge_args' = [merge_args EXCEPT !.state = "done"]
    /\ UNCHANGED <<transformVars, csvVars, topoVars, resampleVars, lagVars,
                   periodVars, allPeriodsVars>>

\* the rows of the files of sensor 1 of box 1 and of sensor 9 of box 2; a
\* folder can hold two files of one sensor (GW_2.9_..., GW2.9_...)
MergeRows ==
    {SensorRow("Period1", 1, 1, t, v) :
        t \in {721, 729}, v \in InputReadings \ {<<NaN, NaN, NaN>>}}
    \cup {[SensorRow("Period1", 2, 9, t, <<Num(30), Num(26), Num(20)>>)
              EXCEPT !.wall_type = w] :
            t \in {721, 729}, w \in {"Gypsum", "Yarka"}}

\* a per-file table: one reading, or a reading of 12:01 and one of 12:09
FileTables ==
    {<<r>> : r \in MergeRows}
    \cup {t \in MergeRows \X MergeRows :
            /\ t[1].sensor_id = t[2].sensor_id
            /\ t[1].timestamp = 721 /\ t[2].timestamp = 729}

FileOrders(n) ==
    {f \in [1..n -> 1..n] : \A i, j \in 1..n : f[i] = f[j] => i = j}

NoMerge == [table |-> <<>>, sensor |-> <<>>]

InitMerge ==
    /\ \E tables \in SeqsUpTo(FileTables, MaxFiles) :
       \E order \in FileOrders(Len(tables)) :
          merge_args = [state |-> "call", all_data |-> tables, order |-> order]
    /\ merge_result = [given |-> NoMerge, permuted |-> NoMerge]

InitAllPeriodsIdle ==
    /\ base_folder = <<>>
    /\ periods = <<>>
    /\ period_name_i = 1
    /\ periods_state = "idle"
InitMergeIdle ==
    /\ merge_args = [state |-> "idle", all_data |-> <<>>, order |-> <<>>]
    /\ merge_result = [given |-> NoMerge, permuted |-> NoMerge]

InitResampleIdle ==
    /\ resample_df = <<>>
    /\ resample_first = <<>>
    /\ resample_second = <<>>
    /\ resample_calls = -1
InitLagIdle ==
    /\ lag_args = [state |-> "idle", out_series |-> <<>>, in_series |-> <<>>,
                   max_lag_hours |-> DefaultMaxLagHours]
    /\ lag_result = NoLag
InitPeriodIdle ==
    /\ csv_files = <<>>
    /\ file_i = 1
    /\ all_data = <<>>
    /\ success_count = 0
    /\ fail_count = 0
    /\ total_rows = 0
    /\ combined = <<>>
    /\ sensors_missing = {}
    /\ period_pc = "idle"

InitCsvIdle ==
    /\ raw_file = [state |-> "idle", date_col |-> TRUE, columns |-> {}, rows |-> <<>>]
    /\ csv_result = <<>>
InitTopoIdle ==
    /\ sensor_id = 0
    /\ topo_pc = "idle"
    /\ topo_result = [wall_id |-> NoWall, position |-> None]

InitTransform ==
    /\ \E rows \in SeqsUpTo(InputRows, MaxRows) : periods_dict = TablesOf(rows)
    /\ pc = "resample"
    /\ idx = 1
    /\ df_resampled = <<>>
    /\ all_sensor = <<>>
    /\ all_wall = <<>>
    /\ all_box = <<>>
    /\ result = [sensor |-> <<>>, wall |-> <<>>, box |-> <<>>]

InitTransformIdle ==
    /\ periods_dict = <<>>
    /\ pc = "idle"
    /\ idx = 1
    /\ df_resampled = <<>>
    /\ all_sensor = <<>>
    /\ all_wall = <<>>
    /\ all_box = <<>>
    /\ result = [sensor |-> <<>>, wall |-> <<>>, box |-> <<>>]

\* the pipeline: transform_all_data on the output of load_all_periods
Init ==
    /\ InitTransform /\ InitCsvIdle /\ InitTopoIdle
    /\ InitResampleIdle /\ InitLagIdle /\ InitPeriodIdle
    /\ InitAllPeriodsIdle /\ InitMergeIdle

Next ==
    \/ Resample
    \/ Normalize
    \/ AggregateWall
    \/ AggregateBox
    \/ Return

Spec == Init /\ [][Next]_vars

\* the raw record parser on one file
InitLoad ==
    /\ InitCsv /\ InitTransformIdle /\ InitTopoIdle
    /\ InitResampleIdle /\ InitLagIdle /\ InitPeriodIdle
    /\ InitAllPeriodsIdle /\ InitMergeIdle
NextLoad == LoadCsvFile
SpecLoad == InitLoad /\ [][NextLoad]_vars

\* the topology resolver on one sensor id
InitTopology ==
    /\ InitTopo /\ InitTransformIdle /\ InitCsvIdle
    /\ InitResampleIdle /\ InitLagIdle /\ InitPeriodIdle
    /\ InitAllPeriodsIdle /\ InitMergeIdle
NextTopology == GetSensorWall
SpecTopology == InitTopology /\ [][NextTopology]_vars

\* the resampler on one table, and on its own output
InitResampling ==
    /\ InitResample /\ InitTransformIdle /\ InitCsvIdle /\ InitTopoIdle
    /\ InitLagIdle /\ InitPeriodIdle /\ InitAllPeriodsIdle /\ InitMergeIdle
NextResampling == ResampleTable \/ ResampleAgain
SpecResampling == InitResampling /\ [][NextResampling]_vars

\* the thermal lag of one pair of series
InitThermalLag ==
    /\ InitLag /\ InitTransformIdle /\ InitCsvIdle /\ InitTopoIdle
    /\ InitResampleIdle /\ InitPeriodIdle /\ InitAllPeriodsIdle /\ InitMergeIdle
NextThermalLag == CalculateThermalLag
SpecThermalLag == InitThermalLag /\ [][NextThermalLag]_vars

\* the period loader on one folder
InitPeriodLoad ==
    /\ InitPeriod /\ InitTransformIdle /\ InitCsvIdle /\ InitTopoIdle
    /\ InitResampleIdle /\ InitLagIdle /\ InitAllPeriodsIdle /\ InitMergeIdle
NextPeriodLoad == LoadFile \/ ReturnCombined
SpecPeriodLoad == InitPeriodLoad /\ [][NextPeriodLoad]_vars

\* the loader of all periods on one root directory
InitLoadAll ==
    /\ InitAllPeriods /\ InitTransformIdle /\ InitCsvIdle /\ InitTopoIdle
    /\ InitResampleIdle /\ InitLagIdle /\ InitPeriodIdle /\ InitMergeIdle
NextLoadAll == LoadPeriod \/ ReturnPeriods
SpecLoadAll == InitLoadAll /\ [][NextLoadAll]_vars

\* the merge and resampling of one period in two orders of its files
InitMergeOrder ==
    /\ InitMerge /\ InitTransformIdle /\ InitCsvIdle /\ InitTopoIdle
    /\ InitResampleIdle /\ InitLagIdle /\ InitPeriodIdle /\ InitAllPeriodsIdle
NextMergeOrder == MergeGiven \/ MergePermuted
SpecMergeOrder == InitMergeOrder /\ [][NextMergeOrder]_vars

(***************************************************************************)
(* Properties.                                                             *)
(***************************************************************************)
Done == pc = "done"
Rows(df) == {df[i] : i \in DOMAIN df}
Where(df, P(_)) == SelectSeq(df, P)

\* C1: load_csv_file discards the first row in which 2 or more of the
\* required columns (date and the value columns the header names) are
\* missing, and every row after it, wherever that row is, the first data row
\* included: no reading comes from that row or a later one, and when the
\* rows before it are clean (their dates parse) they are exactly the
\* readings returned.
C1_TruncatesAtFirstInvalidRow ==
    (raw_file.state = "returned" /\ raw_file.date_col) =>
        LET invalid == {i \in DOMAIN raw_file.rows :
                            missing_count(raw_file, raw_file.rows[i]) >= 2}
            before == IF invalid = {} THEN DOMAIN raw_file.rows
                      ELSE {i \in DOMAIN raw_file.rows : \A j \in invalid : i < j}
            parsed == {i \in before : to_datetime(raw_file.rows[i].date) # NaT}
        IN  /\ Len(csv_result) <= Cardinality(parsed)
            /\ parsed = before => Len(csv_result) = Cardinality(before)

RECURSIVE SumNumerators(_, _, _)
SumNumerators(df, I, c) ==
    IF I = {} THEN 0
    ELSE LET i == CHOOSE x \in I : TRUE
         IN  df[i][c][1] + SumNumerators(df, I \ {i}, c)

SameSensorBin(raw, row) ==
    /\ raw.box_id = row.box_id
    /\ raw.sensor_id = row.sensor_id
    /\ raw.timestamp - (raw.timestamp % 10) = row.timestamp

\* the cell x is the mean of the readings of column c at the indices I of df
\* that are not missing (raw readings are whole numbers)
IsMeanOf(x, df, I, c) ==
    LET present == {i \in I : df[i][c] # NaN}
    IN  IF present = {} THEN x = NaN
        ELSE /\ x # NaN
             /\ x[1] * Cardinality(present) = x[2] * SumNumerators(df, present, c)

\* C2: resample_to_10min returns exactly one row per (box, sensor, 10-minute
\* bin) that has a reading and no other row; a reading at t belongs to bin
\* t - t mod 10, and each numeric column of the row is the mean of that
\* sensor's non-missing readings in the bin.
C2_OneMeanRowPerSensorBin ==
    pc = "normalize" =>
        LET df == periods_dict[CurrentPeriod]
            out == df_resampled
        IN  /\ \A i \in DOMAIN df :
                  Cardinality({n \in DOMAIN out : SameSensorBin(df[i], out[n])}) = 1
            /\ \A n \in DOMAIN out :
                  LET I == {i \in DOMAIN df : SameSensorBin(df[i], out[n])}
                  IN  /\ I # {}
                      /\ IsMeanOf(out[n].surface_temp, df, I, "surface_temp")
                      /\ IsMeanOf(out[n].internal_temp, df, I, "internal_temp")
                      /\ IsMeanOf(out[n].room_temp, df, I, "room_temp")

\* readings of 30 at 12:01 and 20 at 12:09 of one sensor became the single
\* row of bin 12:00 with surface_temp 25
C2_Witness ==
    /\ pc = "normalize"
    /\ \E i, j \in DOMAIN periods_dict[CurrentPeriod] :
          LET df == periods_dict[CurrentPeriod]
          IN  /\ df[i].timestamp = 721 /\ df[j].timestamp = 729
              /\ df[i].sensor_id = df[j].sensor_id /\ df[i].box_id = df[j].box_id
              /\ df[i].surface_temp = Num(30) /\ df[j].surface_temp = Num(20)
    /\ Len(df_resampled) = 1
    /\ df_resampled[1].timestamp = 720
    /\ df_resampled[1].surface_temp = Num(25)

RawTimestamps ==
    UNION {{periods_dict[p][i].timestamp : i \in DOMAIN periods_dict[p]} :
            p \in DOMAIN periods_dict}
\* the 10-minute floor of the earliest raw timestamp over all periods
GlobalStart ==
    LET first == CHOOSE m \in RawTimestamps : \A u \in RawTimestamps : m <= u
    IN  first - (first % 10)

\* C3: every row of the sensor table returned by transform_all_data has a
\* timestamp that lies a non-negative whole multiple of 10 minutes after the
\* 10-minute floor of the earliest raw timestamp over all periods.
C3_GlobalBinAlignment ==
    Done =>
        \A r \in Rows(result.sensor) :
            /\ r.timestamp - GlobalStart >= 0
            /\ (r.timestamp - GlobalStart) % 10 = 0

\* two periods whose first readings are at different minutes of the hour
\* both have rows in the sensor table
C3_Witness ==
    /\ Done
    /\ DOMAIN periods_dict = {"Period1", "Period2"}
    /\ periods_dict["Period1"][1].timestamp % 10 # periods_dict["Period2"][1].timestamp % 10
    /\ \E r, q \in Rows(result.sensor) : r.period = "Period1" /\ q.period = "Period2"

Wall1 == {1, 2, 9, 10}
Wall2 == {3, 4, 11, 12}
Wall3 == {5, 6, 13, 14}
Wall4 == {7, 8, 15, 16}
WallSets == <<Wall1, Wall2, Wall3, Wall4>>

\* C4: for every sensor_id in 1..16 get_sensor_wall returns one (wall_id,
\* position) with wall_id in 1..4; wall w is returned exactly for the sensors
\* of its set ({1,2,9,10}, {3,4,11,12}, {5,6,13,14}, {7,8,15,16}: four each,
\* pairwise disjoint), 'out' for 1..8 and 'in' for 9..16.
C4_SensorTopology ==
    (topo_pc = "done" /\ sensor_id \in 1..16) =>
        /\ topo_result.wall_id \in 1..4
        /\ \A w \in 1..4 : (topo_result.wall_id = w) <=> (sensor_id \in WallSets[w])
        /\ (topo_result.position = "out") <=> (sensor_id \in 1..8)
        /\ (topo_result.position = "in") <=> (sensor_id \in 9..16)
        /\ \A w \in 1..4 : Cardinality(WallSets[w]) = 4
        /\ \A w, v \in 1..4 : w # v => WallSets[w] \cap WallSets[v] = {}

\* sensor 12 resolved to the inside of wall 2
C4_Witness ==
    /\ topo_pc = "done"
    /\ sensor_id = 12
    /\ topo_result = [wall_id |-> 2, position |-> "in"]

SameBoxBin(s, b) ==
    s.period = b.period /\ s.box_id = b.box_id /\ s.timestamp = b.timestamp

\* C5: the surface_temp of a box-level row is the mean of surface_temp over
\* the 'in' sensor rows of its (period, box, timestamp) only; with no 'in'
\* row it is missing, whatever the 'out' rows hold.
C5_BoxSurfaceFromInOnly ==
    Done =>
        \A b \in Rows(result.box) :
            LET ins == Where(result.sensor,
                             LAMBDA s : SameBoxBin(s, b) /\ s.position = "in")
            IN  /\ b.surface_temp = Mean(Column(ins, "surface_temp"))
                /\ ins = <<>> => b.surface_temp = NaN

\* a box bin with an 'out' surface value and no 'in' row has no surface_temp
C5_Witness ==
    /\ Done
    /\ \E b \in Rows(result.box) :
          /\ b.surface_temp = NaN
          /\ \E s \in Rows(result.sensor) :
                SameBoxBin(s, b) /\ s.position = "out" /\ s.surface_temp # NaN
          /\ ~\E s \in Rows(result.sensor) : SameBoxBin(s, b) /\ s.position = "in"

\* C6: internal_temp and room_temp of a box-level row are each the mean over
\* all sensor rows of its (period, box, timestamp) that have a value,
\* whatever their position.
C6_BoxInternalRoomFromAll ==
    Done =>
        \A b \in Rows(result.box) :
            LET all == Where(result.sensor, LAMBDA s : SameBoxBin(s, b))
            IN  /\ b.internal_temp = Mean(Column(all, "internal_temp"))
                /\ b.room_temp = Mean(Column(all, "room_temp"))

\* an 'out' and an 'in' sensor with different internal temperatures, 26 and
\* 24, give the box row their mean
C6_Witness ==
    /\ Done
    /\ \E b \in Rows(result.box) :
          /\ b.internal_temp = Num(25)
          /\ b.sensor_count = 2
          /\ \E s, q \in Rows(result.sensor) :
                /\ SameBoxBin(s, b) /\ SameBoxBin(q, b)
                /\ s.position = "out" /\ q.position = "in"
                /\ s.internal_temp = Num(26) /\ q.internal_temp = Num(24)

\* a sensor row contributes to a box row when one of its values enters one
\* of the row's averages
Contributes(s) ==
    \/ s.internal_temp # NaN
    \/ s.room_temp # NaN
    \/ (s.position = "in" /\ s.surface_temp # NaN)

\* C7: sensor_count of a box-level row is the number of distinct sensors of
\* the box whose readings enter the row's averages for the bin, and is at
\* most 16.
C7_SensorCountIsContributors ==
    Done =>
        \A b \in Rows(result.box) :
            /\ b.sensor_count =
                  Cardinality({s.sensor_id : s \in
                      {q \in Rows(result.sensor) : SameBoxBin(q, b) /\ Contributes(q)}})
            /\ b.sensor_count <= 16

SameWallBin(s, w) ==
    /\ s.period = w.period /\ s.box_id = w.box_id
    /\ s.wall_id = w.wall_id /\ s.timestamp = w.timestamp

\* C8: there is exactly one wall-level row for every (period, box, wall,
\* timestamp) that has a sensor-level row and none for any other key; the
\* row pairs the 'out' values of the key (out_surface, out_internal) with
\* its 'in' values (in_surface, in_internal), and the columns of a position
\* that has no sensor row are missing.
C8_OneWallRowPerKey ==
    Done =>
        /\ \A s \in Rows(result.sensor) :
              s.wall_id \in 1..4 =>
                  Cardinality({n \in DOMAIN result.wall :
                                  SameWallBin(s, result.wall[n])}) = 1
        /\ \A w \in Rows(result.wall) :
              LET out == Where(result.sensor,
                               LAMBDA s : SameWallBin(s, w) /\ s.position = "out")
                  in == Where(result.sensor,
                              LAMBDA s : SameWallBin(s, w) /\ s.position = "in")
              IN  /\ out # <<>> \/ in # <<>>
                  /\ out = <<>> => w.out_surface = NaN /\ w.out_internal = NaN
                  /\ in = <<>> => w.in_surface = NaN /\ w.in_internal = NaN
                  /\ Len(out) = 1 => /\ w.out_surface = out[1].surface_temp
                                     /\ w.out_internal = out[1].internal_temp
                  /\ Len(in) = 1 => /\ w.in_surface = in[1].surface_temp
                                    /\ w.in_internal = in[1].internal_temp

\* one 'out' and one 'in' sensor of a wall, read in the same bin, are paired
\* in the single wall row
C8_Witness ==
    /\ Done
    /\ Len(result.wall) = 1
    /\ Len(result.sensor) = 2
    /\ result.wall[1].out_sensor_count = 1
    /\ result.wall[1].in_sensor_count = 1
    /\ result.wall[1].out_surface = Num(30)
    /\ result.wall[1].in_surface = Num(20)

FirstOf(df) == df[1]

\* C9 as stated: when more than one sensor-level row maps to one (period,
\* box, wall, position, timestamp), the wall row's surface, internal and room
\* values for that position are those of the first such row.
C9_FirstEncounteredKept ==
    Done =>
        \A w \in Rows(result.wall) :
            LET out == Where(result.sensor,
                             LAMBDA s : SameWallBin(s, w) /\ s.position = "out")
                in == Where(result.sensor,
                            LAMBDA s : SameWallBin(s, w) /\ s.position = "in")
            IN  /\ Len(out) > 1 =>
                      /\ w.out_surface = FirstOf(out).surface_temp
                      /\ w.out_internal = FirstOf(out).internal_temp
                      /\ w.out_room = FirstOf(out).room_temp
                /\ Len(in) > 1 =>
                      /\ w.in_surface = FirstOf(in).surface_temp
                      /\ w.in_internal = FirstOf(in).internal_temp
                      /\ w.in_room = FirstOf(in).room_temp

\* C9 amended: when more than one sensor-level row maps to one (period, box,
\* wall, position, timestamp), the wall row's surface, internal and room
\* values for that position are the means of the non-missing values of
\* those rows.
C9_MeanOfPositionRows ==
    Done =>
        \A w \in Rows(result.wall) :
            LET out == Where(result.sensor,
                             LAMBDA s : SameWallBin(s, w) /\ s.position = "out")
                in == Where(result.sensor,
                            LAMBDA s : SameWallBin(s, w) /\ s.position = "in")
            IN  /\ Len(out) > 1 =>
                      /\ w.out_surface = Mean(Column(out, "surface_temp"))
                      /\ w.out_internal = Mean(Column(out, "internal_temp"))
                      /\ w.out_room = Mean(Column(out, "room_temp"))
                /\ Len(in) > 1 =>
                      /\ w.in_surface = Mean(Column(in, "surface_temp"))
                      /\ w.in_internal = Mean(Column(in, "internal_temp"))
                      /\ w.in_room = Mean(Column(in, "room_temp"))

\* sensors 1 and 2, both 'out' on wall 1, read 30 and 20 in one bin and the
\* wall row has out_surface 25
C9_Witness ==
    /\ Done
    /\ \E w \in Rows(result.wall) :
          /\ w.out_sensor_count = 2
          /\ w.out_surface = Num(25)
          /\ \E s, q \in Rows(result.sensor) :
                /\ SameWallBin(s, w) /\ SameWallBin(q, w)
                /\ s.sensor_id = 1 /\ q.sensor_id = 2
                /\ s.surface_temp = Num(30) /\ q.surface_temp = Num(20)

Positive(x) == x # NaN /\ x[1] > 0

\* C10: every gradient of a wall-level row is the inner point minus the
\* outer point along air, out surface, in surface, interior:
\* gradient_air_to_out_surface = out_surface - room_temp (30 and 20 give
\* 10), gradient_out_to_in_surface = in_surface - out_surface,
\* gradient_in_surface_to_internal = internal_avg - in_surface and
\* total_gradient = internal_avg - room_temp, which is positive exactly when
\* the interior is warmer than the outside air.
C10_GradientSignConvention ==
    Done =>
        \A w \in Rows(result.wall) :
            /\ w.gradient_air_to_out_surface = Sub(w.out_surface, w.room_temp)
            /\ w.gradient_out_to_in_surface = Sub(w.in_surface, w.out_surface)
            /\ w.gradient_in_surface_to_internal = Sub(w.internal_avg, w.in_surface)
            /\ w.total_gradient = Sub(w.internal_avg, w.room_temp)
            /\ (w.out_surface = Num(30) /\ w.room_temp = Num(20))
                  => w.gradient_air_to_out_surface = Num(10)
            /\ (w.internal_avg # NaN /\ w.room_temp # NaN)
                  => (Positive(w.total_gradient) <=> Less(w.room_temp, w.internal_avg))

\* out_surface 30 over room_temp 20 gave +10, with an interior warmer than
\* the air and a positive total_gradient
C10_Witness ==
    /\ Done
    /\ \E w \in Rows(result.wall) :
          /\ w.out_surface = Num(30) /\ w.room_temp = Num(20)
          /\ w.gradient_air_to_out_surface = Num(10)
          /\ Positive(w.total_gradient)
          /\ w.gradient_out_to_in_surface # NaN
          /\ w.gradient_in_surface_to_internal # NaN

\* C11 as stated: in every wall-level row internal_avg is the mean of
\* out_internal and in_internal when both are present, equals the one that
\* is present when only one is, and is missing only when both are missing.
C11_InternalAvgFallsBack ==
    Done =>
        \A w \in Rows(result.wall) :
            /\ (w.out_internal # NaN /\ w.in_internal # NaN)
                  => w.internal_avg = Half(Add(w.out_internal, w.in_internal))
            /\ (w.out_internal # NaN /\ w.in_internal = NaN)
                  => w.internal_avg = w.out_internal
            /\ (w.out_internal = NaN /\ w.in_internal # NaN)
                  => w.internal_avg = w.in_internal
            /\ (w.internal_avg = NaN)
                  <=> (w.out_internal = NaN /\ w.in_internal = NaN)

\* the columns of a sensor-level row, without the t_bin a call leaves behind
SensorColumns(r) == [c \in DOMAIN r \ {"t_bin"} |-> r[c]]
SensorTable(df) == [i \in DOMAIN df |-> SensorColumns(df[i])]

\* every timestamp is a whole multiple of 10 minutes and no sensor has two
\* rows at one timestamp
AlignedOnePerSensor(df) ==
    /\ \A i \in DOMAIN df : df[i].timestamp % 10 = 0
    /\ \A i, j \in DOMAIN df :
          (/\ df[i].box_id = df[j].box_id /\ df[i].sensor_id = df[j].sensor_id
           /\ df[i].timestamp = df[j].timestamp) => i = j

\* C12: resample_to_10min returns a table in which every sensor has one
\* reading per 10-minute-aligned timestamp with the same rows and the same
\* values (the rows come back in key order), and resampling the result of a
\* resampling returns that result: resample(resample(x)) = resample(x).
C12_ResampleIdempotent ==
    /\ resample_calls >= 1 =>
          (AlignedOnePerSensor(resample_df) =>
              /\ Len(resample_first) = Len(resample_df)
              /\ Rows(SensorTable(resample_first)) = Rows(SensorTable(resample_df)))
    /\ resample_calls = 2 => resample_second = SensorTable(resample_first)

\* an aligned table of two sensors, given with the later reading first, was
\* resampled twice
C12_Witness ==
    /\ resample_calls = 2
    /\ AlignedOnePerSensor(resample_df)
    /\ Len(resample_df) = 3
    /\ resample_df[1].timestamp = 730
    /\ resample_df[2].timestamp = 720
    /\ resample_df[1].sensor_id # resample_df[3].sensor_id
    /\ Len(resample_second) = 3

\* C13 as stated: load_csv_file returns the readings in time order: the
\* timestamps of its output are non-decreasing from one row to the next,
\* whatever the order of the rows in the raw file.
C13_OutputTimeOrdered ==
    raw_file.state = "returned" =>
        \A i \in DOMAIN csv_result :
            i + 1 \in DOMAIN csv_result =>
                csv_result[i].timestamp <= csv_result[i + 1].timestamp

\* the readings load_csv_file should return: those of the rows it retains
\* (lines 148-155) whose date parses, in file order
ParsedOfRetained ==
    LET kept == SubSeq(raw_file.rows, 1, rows_kept(raw_file))
        valid == SelectSeq(kept, LAMBDA row : to_datetime(row.date) # NaT)
    IN  [i \in DOMAIN valid |-> reading(raw_file, valid[i])]

\* C14 as stated: after truncation load_csv_file returns exactly the rows of
\* the retained prefix whose timestamp parsed (format M/D/YYYY H:MM) and
\* drops only the rows whose timestamp did not parse; it yields no data
\* only when no row of the retained prefix has a parsable timestamp.
C14_ReturnsParsedRowsOfPrefix ==
    (raw_file.state = "returned" /\ raw_file.date_col) =>
        /\ csv_result = ParsedOfRetained
        /\ csv_result = <<>> => ParsedOfRetained = <<>>

\* the file name follows the convention GW<box>.<sensor>_ or GW_<box>.<sensor>_
NameMatches(name) ==
    name.prefix \in {"GW_", "GW"} /\ StartsWithUnderscore(name.suffix)

\* the files of the folder that give data: the name follows the convention
\* and the parser returns at least one reading
Usable ==
    {k \in DOMAIN csv_files :
        NameMatches(csv_files[k].name) /\ load_csv_file(csv_files[k].raw) # <<>>}

\* the rows of the period table that carry the box and sensor of file k,
\* reduced to the columns of a reading
RowsOfFile(k) ==
    LET own == SelectSeq(combined,
                         LAMBDA r : /\ r.box_id = csv_files[k].name.box
                                    /\ r.sensor_id = csv_files[k].name.sensor)
    IN  [i \in DOMAIN own |->
            [c \in {"timestamp", "surface_temp", "internal_temp", "room_temp"} |->
                own[i][c]]]

RECURSIVE SumLen(_)
SumLen(tables) == IF tables = <<>> THEN 0 ELSE Len(Head(tables)) + SumLen(Tail(tables))

\* C15: load_period_data leaves out every file whose parse fails (the name
\* or the content) or yields no rows and loads every other file of the
\* folder whole; it returns no table if and only if no file of the folder
\* gives usable data.
C15_PartialFailurePolicy ==
    period_pc = "returned" =>
        /\ \A k \in DOMAIN csv_files :
              RowsOfFile(k) = IF k \in Usable THEN load_csv_file(csv_files[k].raw)
                              ELSE <<>>
        /\ Len(combined) = SumLen([k \in DOMAIN csv_files |-> RowsOfFile(k)])
        /\ (combined = <<>>) <=> (Usable = {})

\* of two files with recognised names the one without a date column was
\* left out and the two readings of the other were loaded
C15_Witness ==
    /\ period_pc = "returned"
    /\ Len(csv_files) = 2
    /\ \A k \in DOMAIN csv_files : NameMatches(csv_files[k].name)
    /\ ~csv_files[1].raw.date_col
    /\ Usable = {2}
    /\ Len(combined) = 2
    /\ fail_count = 1

\* C16: a file whose name does not follow the '<box>.<sensor>_' convention
\* is skipped by load_period_data: every row of the period table carries the
\* box and sensor of a file whose name follows the convention, the table has
\* no more rows than those files hold, and the skipped file is counted as
\* failed.
C16_UnrecognisedNameSkipped ==
    period_pc = "returned" =>
        LET matched == {k \in DOMAIN csv_files : NameMatches(csv_files[k].name)}
        IN  /\ \A r \in Rows(combined) :
                  \E k \in matched : /\ r.box_id = csv_files[k].name.box
                                     /\ r.sensor_id = csv_files[k].name.sensor
            /\ Len(combined) <=
                  SumLen([k \in DOMAIN csv_files |->
                            IF k \in matched THEN load_csv_file(csv_files[k].raw)
                            ELSE <<>>])
            /\ fail_count >= Len(csv_files) - Cardinality(matched)

\* 'Box1.1_111025.csv' holds two good readings and is skipped; the period
\* table has the one reading of the file of sensor 9
C16_Witness ==
    /\ period_pc = "returned"
    /\ Len(csv_files) = 2
    /\ csv_files[1].name.prefix = "Box"
    /\ Len(load_csv_file(csv_files[1].raw)) = 2
    /\ NameMatches(csv_files[2].name)
    /\ Len(combined) = 1
    /\ combined[1].sensor_id = 9
    /\ fail_count = 1

\* C17 as stated: every row of a loaded period table has box_id in {1, 2},
\* sensor_id in 1..16, wall_id in 1..4 and position 'out' or 'in', wall_id
\* and position being the topology's values for the sensor_id.
C17_ValidSensorIdentity ==
    period_pc = "returned" =>
        \A r \in Rows(combined) :
            /\ r.box_id \in {1, 2}
            /\ r.sensor_id \in 1..16
            /\ r.wall_id \in 1..4
            /\ r.position \in {"out", "in"}
            /\ r.wall_id = get_sensor_wall(r.sensor_id).wall_id
            /\ r.position = get_sensor_wall(r.sensor_id).position

LagReturned == lag_args.state = "returned"

\* the rows at which both series have a value
JointlyValid ==
    {i \in DOMAIN lag_args.out_series :
        lag_args.out_series[i] # NaN /\ lag_args.in_series[i] # NaN}

\* C18: calculate_thermal_lag returns (None, None) whenever fewer than 10
\* samples remain after the rows at which either series is missing are
\* removed.
C18_NoneBelowTenSamples ==
    (LagReturned /\ Cardinality(JointlyValid) < 10) => lag_result.is_none

\* two series of 11 rows, one missing its first value and the other its
\* last, leave 9 samples and no lag
C18_Witness ==
    /\ LagReturned
    /\ Len(lag_args.out_series) = 11
    /\ lag_args.out_series[1] = NaN
    /\ lag_args.in_series[11] = NaN
    /\ Cardinality(JointlyValid) = 9
    /\ lag_result.is_none

\* the cross-correlation of the jointly valid samples at a lag of k rows
CrossCorrelation(k) ==
    correlate(centred(clean(lag_args.in_series, JointlyValid)),
              centred(clean(lag_args.out_series, JointlyValid)), k)

\* C19: for two series with at least 10 jointly valid samples and a horizon
\* max_lag_hours >= 0 (12 by default) calculate_thermal_lag returns a lag,
\* which is a multiple of 10 minutes in [0, max_lag_hours * 60] ([0, 720] by
\* default), never negative, and no candidate lag of that range has a
\* larger cross-correlation.
C19_LagInRangeAndMaximal ==
    (LagReturned /\ Cardinality(JointlyValid) >= 10 /\ lag_args.max_lag_hours >= 0) =>
        /\ ~lag_result.is_none
        /\ lag_result.best_lag % 10 = 0
        /\ lag_result.best_lag >= 0
        /\ lag_result.best_lag <= lag_args.max_lag_hours * 60
        /\ lag_args.max_lag_hours = 12 => lag_result.best_lag <= 720
        /\ \A k \in 0..(Cardinality(JointlyValid) - 1) :
              k * 10 <= lag_args.max_lag_hours * 60 =>
                  CrossCorrelation(k) <= CrossCorrelation(lag_result.best_lag \div 10)

\* the inside series repeats the outside one 3 rows later and the lag is 30
\* minutes; with the warm reading 7 rows later and a horizon of one hour
\* the lag stays within 60 minutes
C19_Witness ==
    /\ LagReturned
    /\ Cardinality(JointlyValid) >= 10
    /\ \/ /\ lag_args.max_lag_hours = 12
          /\ lag_args.out_series = Pulse(10, 1)
          /\ lag_args.in_series = Pulse(10, 4)
          /\ lag_result.best_lag = 30
       \/ /\ lag_args.max_lag_hours = 1
          /\ lag_args.out_series = Pulse(10, 1)
          /\ lag_args.in_series = Pulse(10, 8)
          /\ ~lag_result.is_none
          /\ lag_result.best_lag <= 60

\* the wall types named by the rows of resample_df that fall in the group
\* of the resampled row o, in input order
WallTypesOfGroup(o) ==
    Column(SelectSeq(resample_df, LAMBDA r : SameSensorBin(r, o)), "wall_type")

\* the values that no other value of the group outnumbers
MostFrequent(cells) ==
    {v \in Range(cells) \ {NoWallType} :
        \A u \in Range(cells) \ {NoWallType} : Count(cells, u) <= Count(cells, v)}

\* C20 as stated: within a (sensor, bin) group the resampled wall_type is
\* the most frequent wall_type of the group, and when several values are
\* tied for most frequent it is the one met first in the input.
C20_FirstEncounteredOnTies ==
    resample_calls >= 1 =>
        \A o \in Rows(resample_first) :
            LET cells == WallTypesOfGroup(o)
            IN  MostFrequent(cells) # {} =>
                    /\ o.wall_type \in MostFrequent(cells)
                    /\ \E i \in DOMAIN cells :
                          /\ cells[i] = o.wall_type
                          /\ \A j \in 1..(i - 1) : cells[j] \notin MostFrequent(cells)

\* C20 amended: within a (sensor, bin) group the resampled wall_type is the
\* most frequent wall_type of the group, and when several values are tied
\* for most frequent it is the one that comes first in sorted (alphabetical)
\* order, wherever it stands in the input.
C20_SortedFirstOnTies ==
    resample_calls >= 1 =>
        \A o \in Rows(resample_first) :
            LET cells == WallTypesOfGroup(o)
            IN  MostFrequent(cells) # {} =>
                    /\ o.wall_type \in MostFrequent(cells)
                    /\ \A v \in MostFrequent(cells) :
                          WallTypeRank(o.wall_type) <= WallTypeRank(v)

\* a bin whose first row says Yarka and whose second says Gypsum is
\* resampled to Gypsum
C20_Witness ==
    /\ resample_calls >= 1
    /\ Len(resample_df) = 2
    /\ resample_df[1].wall_type = "Yarka"
    /\ resample_df[2].wall_type = "Gypsum"
    /\ Len(resample_first) = 1
    /\ resample_first[1].wall_type = "Gypsum"

\* C21 as stated: the room_temp of a wall-level row is taken from either
\* position: it is the 'out' position's room_temp when both positions have
\* one, and it is not missing whenever at least one of the two positions
\* has a room_temp value.
C21_RoomTempFromEitherPosition ==
    Done =>
        \A w \in Rows(result.wall) :
            /\ (w.out_room # NaN /\ w.in_room # NaN) => w.room_temp = w.out_room
            /\ (w.out_room # NaN \/ w.in_room # NaN) => w.room_temp # NaN

\* C23 as stated: transform_all_data does not change its input: every table
\* of periods_dict has the columns it was given, to which t_bin does not
\* belong.
C23_InputsNotMutated ==
    \A p \in DOMAIN periods_dict :
        \A i \in DOMAIN periods_dict[p] : "t_bin" \notin DOMAIN periods_dict[p][i]

\* the cell x is a - b, and is missing when a or b is
IsDifference(x, a, b) ==
    IF a = NaN \/ b = NaN THEN x = NaN
    ELSE /\ x # NaN
         /\ x[1] * a[2] * b[2] = (a[1] * b[2] - b[1] * a[2]) * x[2]

\* C24: in every sensor-level row normalized_surface = surface_temp -
\* room_temp and normalized_internal = internal_temp - room_temp, each from
\* its own operands; when an operand is missing the result of that column is
\* missing and the other column is not affected.
C24_NormalizedRowWise ==
    Done =>
        \A r \in Rows(result.sensor) :
            /\ IsDifference(r.normalized_surface, r.surface_temp, r.room_temp)
            /\ IsDifference(r.normalized_internal, r.internal_temp, r.room_temp)

\* a row without a surface value has no normalized_surface and has
\* normalized_internal 24 - 18 = 6
C24_Witness ==
    /\ Done
    /\ \E r \in Rows(result.sensor) :
          /\ r.surface_temp = NaN /\ r.internal_temp = Num(24) /\ r.room_temp = Num(18)
          /\ r.normalized_surface = NaN
          /\ r.normalized_internal = Num(6)

\* C26 as stated: whenever a sensor row of the 'out' or of the 'in' position
\* of a (period, box, wall, timestamp) carries a wall_type, the wall row's
\* wall_type is such a value, not missing.
C26_WallTypeFromEitherPosition ==
    Done =>
        \A w \in Rows(result.wall) :
            LET carried == {s.wall_type : s \in {q \in Rows(result.sensor) :
                                SameWallBin(q, w) /\ q.wall_type # NoWallType}}
            IN  carried # {} => w.wall_type \in carried

\* C28: in every wall-level row in which the three step gradients and the
\* total gradient are all defined, gradient_air_to_out_surface +
\* gradient_out_to_in_surface + gradient_in_surface_to_internal =
\* total_gradient.
C28_GradientsTelescope ==
    Done =>
        \A w \in Rows(result.wall) :
            (/\ w.gradient_air_to_out_surface # NaN
             /\ w.gradient_out_to_in_surface # NaN
             /\ w.gradient_in_surface_to_internal # NaN
             /\ w.total_gradient # NaN) =>
                Add(Add(w.gradient_air_to_out_surface, w.gradient_out_to_in_surface),
                    w.gradient_in_surface_to_internal) = w.total_gradient

\* a wall row with the steps 10, -10 and 5, and the total 5
C28_Witness ==
    /\ Done
    /\ \E w \in Rows(result.wall) :
          /\ w.gradient_air_to_out_surface = Num(10)
          /\ w.gradient_out_to_in_surface = Num(-10)
          /\ w.gradient_in_surface_to_internal = Num(5)
          /\ w.total_gradient = Num(5)

\* C29 as stated: in every box-level row normalized_internal =
\* internal_temp - room_temp whenever both are present, also when some
\* sensors of the bin have a missing internal_temp or room_temp.
C29_BoxNormalizedConsistent ==
    Done =>
        \A b \in Rows(result.box) :
            (b.internal_temp # NaN /\ b.room_temp # NaN) =>
                IsDifference(b.normalized_internal, b.internal_temp, b.room_temp)

\* C25 as stated: for a loaded period, for each box of the table, every
\* sensor id in 1..16 for which no file of that box produced rows is in the
\* reported missing set, and no sensor that produced rows is.
C25_MissingSensorsPerBox ==
    (period_pc = "returned" /\ combined # <<>>) =>
        \A b \in Range(Column(combined, "box_id")) \cap {1, 2} :
            \A s \in 1..16 :
                LET produced == \E r \in Rows(combined) : r.box_id = b /\ r.sensor_id = s
                IN  /\ ~produced => s \in sensors_missing
                    /\ produced => s \notin sensors_missing

\* C30: load_period_data accounts for every file of the folder exactly once,
\* as loaded or as failed (success_count + fail_count is the number of files
\* passed by the loop, the number of files at the end), and the returned
\* table has exactly as many rows as load_csv_file returned for the loaded
\* files together, which is total_rows.
C30_FilesAndRowsAccounted ==
    /\ period_pc = "loop" => success_count + fail_count = file_i - 1
    /\ period_pc = "returned" =>
          /\ success_count + fail_count = Len(csv_files)
          /\ success_count = Cardinality(Usable)
          /\ Len(combined) = total_rows
          /\ Len(combined) =
                SumLen([k \in DOMAIN csv_files |->
                          IF k \in Usable THEN load_csv_file(csv_files[k].raw)
                          ELSE <<>>])

\* a folder of a file with an unrecognised name and a file of two readings:
\* one failed, one loaded, two rows
C30_Witness ==
    /\ period_pc = "returned"
    /\ Len(csv_files) = 2
    /\ ~NameMatches(csv_files[1].name)
    /\ success_count = 1
    /\ fail_count = 1
    /\ total_rows = 2
    /\ Len(combined) = 2

\* the subdirectories of the root whose files yield at least one usable table
UsablePeriods == {p \in DOMAIN base_folder : load_period_data(base_folder[p]) # <<>>}

\* the loader has gone through its list of period names and ended, by a
\* return or by an exception
LoadAllEnded == periods_state \in {"returned", "raised"}

(***************************************************************************)
(* C22: load_all_periods(root) returns a mapping with exactly one entry    *)
(* per subdirectory of root that yields usable data, keyed by the          *)
(* subdirectory's name and with every row tagged with that name; a         *)
(* subdirectory without usable data has no entry and does not keep the     *)
(* others from being returned.                                             *)
(***************************************************************************)
C22_OneEntryPerUsablePeriod ==
    LoadAllEnded =>
        /\ periods_state = "returned"
        /\ DOMAIN periods = UsablePeriods
        /\ \A p \in DOMAIN periods :
              /\ Len(periods[p]) = Len(load_period_data(base_folder[p]))
              /\ \A i \in DOMAIN periods[p] : periods[p][i].period = p


\* the two tables have the same rows, each as many times
SameRows(a, b) ==
    /\ Len(a) = Len(b)
    /\ \A r \in Range(a) \cup Range(b) : Count(a, r) = Count(b, r)

(***************************************************************************)
(* C27: the result of merging and resampling a period does not depend on   *)
(* the order of its per-file tables: in any second order of the same       *)
(* tables the period table has the same rows and resample_to_10min gives   *)
(* the same sensor table, wall_type included.                              *)
(***************************************************************************)
C27_FileOrderIndependent ==
    merge_args.state = "done" =>
        /\ SameRows(merge_result.given.table, merge_result.permuted.table)
        /\ merge_result.given.sensor = merge_result.permuted.sensor

\* two files of one sensor with different readings in one bin, merged in
\* both orders: the period tables differ in row order, the bin's means agree
C27_Witness ==
    /\ merge_args.state = "done"
    /\ merge_args.order = <<2, 1>>
    /\ merge_result.given.table # merge_result.permuted.table
    /\ Len(merge_result.given.table) = 2
    /\ merge_result.given.table[1].surface_temp
          # merge_result.given.table[2].surface_temp
    /\ Len(merge_result.permuted.sensor) = 1
    /\ merge_result.permuted.sensor[1].surface_temp = Num(25)

====
